---- MODULE Spec2Model ----
(***************************************************************************)
(* Model of frontend/src/analysis/useAnalysisChart.ts: the chart           *)
(* configuration compiler (refreshChart and the four fetch/prepare pairs), *)
(* the base reset of the chart query, and the two debounced watchers.      *)
(***************************************************************************)
EXTENDS Integers, Sequences, FiniteSets, TLC

(***************************************************************************)
(* Bounds of the model.                                                    *)
(***************************************************************************)
\* longest upstream operation list of model.queries[0]
MaxUpstreamOps == 1
\* longest filter list handed to chart.setFilters
MaxFilters == 1
\* granularity of the clock of the debounce model, in milliseconds
TickMs == 100
\* the per-burst counters of the debounce model saturate at this value
MaxCount == 2

(***************************************************************************)
(* JavaScript values.  A string field of a configuration holds a string or *)
(* is undefined; target_value holds a number, a string of digits or is     *)
(* undefined; y_axis holds an array or is undefined.                       *)
(***************************************************************************)
UNDEF == "undefined"

\* !!x for a string-or-undefined field
Truthy(x) == x \notin {UNDEF, ""}

Undefined == [t |-> "undefined"]
Num(n) == [t |-> "number", v |-> n]
NaN == [t |-> "NaN"]
\* a JavaScript string is kept as the sequence of its characters
Str(s) == [t |-> "string", v |-> s]

\* !!v for a number, string or undefined value
TruthyValue(v) ==
    CASE v.t = "undefined" -> FALSE
      [] v.t = "NaN" -> FALSE
      [] v.t = "number" -> v.v # 0
      [] v.t = "string" -> v.v # <<>>

Digits == <<"0", "1", "2", "3", "4", "5", "6", "7", "8", "9">>

IsDigit(c) == \E i \in 1..10 : Digits[i] = c

DigitValue(c) == (CHOOSE i \in 1..10 : Digits[i] = c) - 1

RECURSIVE ParseDigits(_, _)
ParseDigits(s, acc) ==
    IF s = <<>> THEN acc ELSE ParseDigits(Tail(s), acc * 10 + DigitValue(Head(s)))

\* Number(v): a number is itself, "" is 0, a string of digits is its decimal
\* value, an optional leading minus negates, anything else is NaN
ToNumber(v) ==
    CASE v.t = "number" -> v
      [] v.t = "NaN" -> NaN
      [] v.t = "undefined" -> NaN
      [] v.t = "string" ->
            IF v.v = <<>> THEN Num(0)
            ELSE IF \A i \in 1..Len(v.v) : IsDigit(v.v[i]) THEN Num(ParseDigits(v.v, 0))
            ELSE IF Head(v.v) = "-" /\ Len(v.v) > 1
                    /\ \A i \in 2..Len(v.v) : IsDigit(v.v[i])
                 THEN Num(0 - ParseDigits(Tail(v.v), 0))
            ELSE NaN

\* typeof v, for the values prepareMetricQuery receives as target
TypeOf(v) ==
    IF "kind" \in DOMAIN v
    THEN (IF v.kind = "absent" THEN "undefined" ELSE "object")
    ELSE (IF v.t \in {"number", "NaN"} THEN "number" ELSE v.t)

(***************************************************************************)
(* The data model's column catalog (Column Resolver).                      *)
(***************************************************************************)
Absent == [kind |-> "absent"]

DimensionCatalog ==
    { [kind |-> "dimension", dimension_name |-> "region", column_name |-> "region"],
      [kind |-> "dimension", dimension_name |-> "quarter", column_name |-> "order_date"] }

MeasureCatalog ==
    { [kind |-> "measure", measure_name |-> "total_revenue", column_name |-> "revenue",
       aggregation |-> "sum"],
      [kind |-> "measure", measure_name |-> "avg_cost", column_name |-> "cost",
       aggregation |-> "avg"] }

getDimension(name) ==
    IF \E d \in DimensionCatalog : d.dimension_name = name
    THEN CHOOSE d \in DimensionCatalog : d.dimension_name = name
    ELSE Absent

getMeasure(name) ==
    IF \E m \in MeasureCatalog : m.measure_name = name
    THEN CHOOSE m \in MeasureCatalog : m.measure_name = name
    ELSE Absent

\* the default row-count measure of query_utils
count == [kind |-> "measure", measure_name |-> "count", column_name |-> "count",
          aggregation |-> "count"]

\* list.map(resolve).filter(Boolean)
RECURSIVE ResolveDimensions(_)
ResolveDimensions(names) ==
    IF names = <<>> THEN <<>>
    ELSE LET d == getDimension(Head(names))
         IN  (IF d = Absent THEN <<>> ELSE <<d>>) \o ResolveDimensions(Tail(names))

RECURSIVE ResolveMeasures(_)
ResolveMeasures(names) ==
    IF names = <<>> THEN <<>>
    ELSE LET m == getMeasure(Head(names))
         IN  (IF m = Absent THEN <<>> ELSE <<m>>) \o ResolveMeasures(Tail(names))

(***************************************************************************)
(* The chart query (useQuery) and its mutators.                            *)
(***************************************************************************)
setDataSource(q, ds) == [q EXCEPT !.dataSource = ds]

setOperations(q, ops) == [q EXCEPT !.operations = ops]

addOperation(q, op) == [q EXCEPT !.operations = Append(q.operations, op)]

addFilter(q, fs) == addOperation(q, [type |-> "filter_group", filters |-> fs])

addSummarize(q, args) ==
    addOperation(q, [type |-> "summarize", measures |-> args.measures,
                     dimensions |-> args.dimensions])

addPivotWider(q, args) ==
    addOperation(q, [type |-> "pivot_wider", rows |-> args.rows,
                     columns |-> args.columns, values |-> args.values])

addOrderBy(q, args) ==
    addOperation(q, [type |-> "order_by", column |-> args.column,
                     direction |-> args.direction])

addMutate(q, args) ==
    addOperation(q, [type |-> "mutate", new_name |-> args.new_name,
                     data_type |-> args.data_type, mutation |-> args.mutation])

\* column(name) and expression(text) of query_utils
column(name) == [type |-> "column", column_name |-> name]

expression(text) == [type |-> "expression", expression |-> text]

mutate(args) == args

(***************************************************************************)
(* Chart types and configurations.                                         *)
(***************************************************************************)
AXIS_CHARTS == {"Bar", "Line"}

ChartTypes == AXIS_CHARTS \cup {"Metric", "Donut", "Table"}

Arr(items) == [defined |-> TRUE, items |-> items]

NoArr == [defined |-> FALSE, items |-> <<>>]

\* the values the model gives to each configuration field
FieldValues(f) ==
    CASE f = "x_axis" -> {UNDEF, "region", "total_revenue"}
      [] f = "split_by" -> {UNDEF, "region", "quarter", "total_revenue"}
      [] f = "y_axis" -> {NoArr, Arr(<<>>), Arr(<<"region">>),
                          Arr(<<"total_revenue", "region", "avg_cost">>)}
      [] f = "metric_column" -> {UNDEF, "total_revenue", "region"}
      [] f = "target_value" -> {Undefined, Num(0), Num(0 - 5), Num(100),
                                Str(<<"1", "0", "0">>), Str(<<"0">>)}
      [] f = "target_column" -> {UNDEF, "avg_cost", "total_revenue", "region"}
      [] f = "date_column" -> {UNDEF, "quarter", "total_revenue"}
      [] f = "label_column" -> {UNDEF, "", "region", "total_revenue"}
      [] f = "value_column" -> {UNDEF, "total_revenue", "region"}
      [] f = "rows" -> {<<>>, <<"total_revenue">>, <<"region", "avg_cost">>}
      [] f = "columns" -> {<<>>, <<"avg_cost">>, <<"total_revenue", "quarter">>}
      [] f = "values" -> {<<>>, <<"region">>, <<"avg_cost", "quarter", "total_revenue">>}

Fields(type) ==
    CASE type \in AXIS_CHARTS -> {"x_axis", "split_by", "y_axis"}
      [] type = "Metric" -> {"metric_column", "target_value", "target_column", "date_column"}
      [] type = "Donut" -> {"label_column", "value_column"}
      [] type = "Table" -> {"rows", "columns", "values"}

Configs(type) ==
    CASE type \in AXIS_CHARTS ->
            [x_axis : FieldValues("x_axis"), split_by : FieldValues("split_by"),
             y_axis : FieldValues("y_axis")]
      [] type = "Metric" ->
            [metric_column : FieldValues("metric_column"),
             target_value : FieldValues("target_value"),
             target_column : FieldValues("target_column"),
             date_column : FieldValues("date_column")]
      [] type = "Donut" ->
            [label_column : FieldValues("label_column"),
             value_column : FieldValues("value_column")]
      [] type = "Table" ->
            [rows : FieldValues("rows"), columns : FieldValues("columns"),
             values : FieldValues("values")]

\* the configuration a chart of the given type starts from
EmptyConfig(type) ==
    [f \in Fields(type) |->
        CASE f = "y_axis" -> NoArr
          [] f = "target_value" -> Undefined
          [] f \in {"rows", "columns", "values"} -> <<>>
          [] OTHER -> UNDEF]

(***************************************************************************)
(* State.                                                                  *)
(***************************************************************************)
VARIABLES
    chart,      \* the reactive chart: type, config, filters, query
    model,      \* model.queries[0]: dataSource and operations
    outcome,    \* "idle", or how the refreshChart of the last step ended
    executed,   \* whether the last step called chart.query.execute()
    timer,      \* per watcher: milliseconds until its callback runs, -1 if idle
    sinceLast,  \* per watcher: milliseconds since its source last changed
    burst,      \* per watcher: compiles and executes of its current burst
    gburst      \* compiles and executes since the current burst of any changes began

chartVars == <<chart, model, outcome, executed>>

debounceVars == <<timer, sinceLast, burst, gburst>>

vars == <<chart, model, outcome, executed, timer, sinceLast, burst, gburst>>

(***************************************************************************)
(* Errors thrown by the compile, and the kind the specification gives them.*)
(***************************************************************************)
MissingFieldMessages == {"X-axis is required", "Label is required", "Value is required",
                         "Rows are required"}

ConflictingFieldsMessages == {"X-axis and split-by cannot be the same",
                              "Target value and target column cannot be used together",
                              "Metric and target cannot be the same",
                              "Target and date cannot be used together"}

UnknownColumnMessages == {"X-axis column not found", "Metric column not found",
                          "Label column not found", "Value column not found"}

ErrorMessages == MissingFieldMessages \cup ConflictingFieldsMessages \cup UnknownColumnMessages

ErrorKind(message) ==
    CASE message \in MissingFieldMessages -> "MissingField"
      [] message \in ConflictingFieldsMessages -> "ConflictingFields"
      [] message \in UnknownColumnMessages -> "UnknownColumn"
      [] OTHER -> "none"

\* throw new Error(message): the compile ends, the query is as it was
Throw(q, message) == [outcome |-> message, query |-> q, executed |-> FALSE]

\* chart.query.execute() as the last statement of a fetch function
execute(q) == [outcome |-> "ok", query |-> q, executed |-> TRUE]

(***************************************************************************)
(* The compile.                                                            *)
(***************************************************************************)
\* resetQuery without the setOperations call: the base is appended to what the
\* query already holds
resetQuery_NoSetOperations(q) ==
    LET modelQuery == model
        q1 == [q EXCEPT !.autoExecute = FALSE]
        q2 == setDataSource(q1, modelQuery.dataSource)
        q3 == [q2 EXCEPT !.operations = @ \o modelQuery.operations]
    IN  IF Len(chart.filters) # 0 THEN addFilter(q3, chart.filters) ELSE q3

resetQuery(q) ==
    LET modelQuery == model
        q1 == [q EXCEPT !.autoExecute = FALSE]
        q2 == setDataSource(q1, modelQuery.dataSource)
        q3 == setOperations(q2, modelQuery.operations)
    IN  IF Len(chart.filters) # 0 THEN addFilter(q3, chart.filters) ELSE q3

\* prepareAxisChartQuery that never pivots
prepareAxisChartQuery_IgnoreSplit(q, row, col, values0) ==
    LET values == IF values0.defined /\ Len(values0.items) # 0 THEN values0.items
                  ELSE <<count>>
        q1 == resetQuery(q)
    IN  addSummarize(q1, [measures |-> values, dimensions |-> <<row>>])

\* prepareAxisChartQuery without the count() default
prepareAxisChartQuery_NoDefault(q, row, col, values0) ==
    LET values == values0.items
        q1 == resetQuery(q)
    IN  IF col # Absent
        THEN addPivotWider(q1, [rows |-> <<row>>, columns |-> <<col>>, values |-> values])
        ELSE addSummarize(q1, [measures |-> values, dimensions |-> <<row>>])

prepareAxisChartQuery(q, row, col, values0) ==
    LET values == IF values0.defined /\ Len(values0.items) # 0 THEN values0.items
                  ELSE <<count>>
        q1 == resetQuery(q)
    IN  IF col # Absent
        THEN addPivotWider(q1, [rows |-> <<row>>, columns |-> <<col>>, values |-> values])
        ELSE addSummarize(q1, [measures |-> values, dimensions |-> <<row>>])

fetchAxisChartData(q, config) ==
    IF ~Truthy(config.x_axis) THEN Throw(q, "X-axis is required")
    ELSE IF config.x_axis = config.split_by
    THEN Throw(q, "X-axis and split-by cannot be the same")
    ELSE LET row == getDimension(config.x_axis)
         IN  IF row = Absent THEN Throw(q, "X-axis column not found")
             ELSE LET col == getDimension(config.split_by)
                      values == IF config.y_axis.defined
                                THEN Arr(ResolveMeasures(config.y_axis.items))
                                ELSE NoArr
                  IN  execute(prepareAxisChartQuery(q, row, col, values))

\* prepareMetricQuery with target >= 0 in place of target > 0
prepareMetricQuery_NonNegative(q, metric, target, date) ==
    LET q1 == resetQuery(q)
    IN  IF TypeOf(target) = "number" /\ target.t = "number" /\ target.v >= 0
        THEN addMutate(addSummarize(q1, [measures |-> <<metric>>, dimensions |-> <<>>]),
                       mutate([new_name |-> "target", data_type |-> "Decimal",
                               mutation |-> expression([fn |-> "literal",
                                                        arg |-> target.v])]))
        ELSE IF TypeOf(target) = "object"
        THEN addSummarize(q1, [measures |-> <<metric, target>>, dimensions |-> <<>>])
        ELSE IF date # Absent
        THEN addSummarize(q1, [measures |-> <<metric>>, dimensions |-> <<date>>])
        ELSE addSummarize(q1, [measures |-> <<metric>>, dimensions |-> <<>>])

prepareMetricQuery(q, metric, target, date) ==
    LET q1 == resetQuery(q)
    IN  IF TypeOf(target) = "number" /\ target.t = "number" /\ target.v > 0
        THEN addMutate(addSummarize(q1, [measures |-> <<metric>>, dimensions |-> <<>>]),
                       mutate([new_name |-> "target", data_type |-> "Decimal",
                               mutation |-> expression([fn |-> "literal",
                                                        arg |-> target.v])]))
        ELSE IF TypeOf(target) = "object"
        THEN addSummarize(q1, [measures |-> <<metric, target>>, dimensions |-> <<>>])
        ELSE IF date # Absent
        THEN addSummarize(q1, [measures |-> <<metric>>, dimensions |-> <<date>>])
        ELSE addSummarize(q1, [measures |-> <<metric>>, dimensions |-> <<>>])

\* fetchMetricChartData refusing the target pair only for a positive target_value
fetchMetricChartData_PositiveOnly(q, config) ==
    IF /\ TruthyValue(config.target_value)
       /\ ToNumber(config.target_value).t = "number"
       /\ ToNumber(config.target_value).v > 0
       /\ Truthy(config.target_column)
    THEN Throw(q, "Target value and target column cannot be used together")
    ELSE IF config.metric_column = config.target_column
    THEN Throw(q, "Metric and target cannot be the same")
    ELSE IF Truthy(config.target_column) /\ Truthy(config.date_column)
    THEN Throw(q, "Target and date cannot be used together")
    ELSE LET metric == getMeasure(config.metric_column)
         IN  IF metric = Absent THEN Throw(q, "Metric column not found")
             ELSE LET date == getDimension(config.date_column)
                      target == IF TruthyValue(config.target_value)
                                THEN ToNumber(config.target_value)
                                ELSE getMeasure(config.target_column)
                  IN  execute(prepareMetricQuery(q, metric, target, date))

fetchMetricChartData(q, config) ==
    IF TruthyValue(config.target_value) /\ Truthy(config.target_column)
    THEN Throw(q, "Target value and target column cannot be used together")
    ELSE IF config.metric_column = config.target_column
    THEN Throw(q, "Metric and target cannot be the same")
    ELSE IF Truthy(config.target_column) /\ Truthy(config.date_column)
    THEN Throw(q, "Target and date cannot be used together")
    ELSE LET metric == getMeasure(config.metric_column)
         IN  IF metric = Absent THEN Throw(q, "Metric column not found")
             ELSE LET date == getDimension(config.date_column)
                      target == IF TruthyValue(config.target_value)
                                THEN ToNumber(config.target_value)
                                ELSE getMeasure(config.target_column)
                  IN  execute(prepareMetricQuery(q, metric, target, date))

\* prepareDonutQuery ordering by the measure's name instead of its column
prepareDonutQuery_OrderByMeasureName(q, label, value) ==
    LET q1 == resetQuery(q)
        q2 == addSummarize(q1, [measures |-> <<value>>, dimensions |-> <<label>>])
    IN  addOrderBy(q2, [column |-> column(value.measure_name), direction |-> "desc"])

prepareDonutQuery(q, label, value) ==
    LET q1 == resetQuery(q)
        q2 == addSummarize(q1, [measures |-> <<value>>, dimensions |-> <<label>>])
    IN  addOrderBy(q2, [column |-> column(value.column_name), direction |-> "desc"])

\* fetchDonutChartData resetting the query before it validates
fetchDonutChartData_ResetFirst(q, config) ==
    LET q0 == resetQuery(q)
    IN  IF ~Truthy(config.label_column) THEN Throw(q0, "Label is required")
        ELSE IF ~Truthy(config.value_column) THEN Throw(q0, "Value is required")
        ELSE LET label == getDimension(config.label_column)
                 value == getMeasure(config.value_column)
             IN  IF label = Absent THEN Throw(q0, "Label column not found")
                 ELSE IF value = Absent THEN Throw(q0, "Value column not found")
                 ELSE execute(prepareDonutQuery(q, label, value))

fetchDonutChartData(q, config) ==
    IF ~Truthy(config.label_column) THEN Throw(q, "Label is required")
    ELSE IF ~Truthy(config.value_column) THEN Throw(q, "Value is required")
    ELSE LET label == getDimension(config.label_column)
             value == getMeasure(config.value_column)
         IN  IF label = Absent THEN Throw(q, "Label column not found")
             ELSE IF value = Absent THEN Throw(q, "Value column not found")
             ELSE execute(prepareDonutQuery(q, label, value))

\* prepareTableQuery whose second if tests values instead of columns
prepareTableQuery_PivotOnValues(q, rows, columns, values) ==
    LET q1 == resetQuery(q)
        q2 == IF Len(columns) = 0
              THEN addSummarize(q1, [measures |-> values, dimensions |-> rows])
              ELSE q1
    IN  IF Len(values) # 0
        THEN addPivotWider(q2, [rows |-> rows, columns |-> columns, values |-> values])
        ELSE q2

prepareTableQuery(q, rows, columns, values) ==
    LET q1 == resetQuery(q)
        q2 == IF Len(columns) = 0
              THEN addSummarize(q1, [measures |-> values, dimensions |-> rows])
              ELSE q1
    IN  IF Len(columns) # 0
        THEN addPivotWider(q2, [rows |-> rows, columns |-> columns, values |-> values])
        ELSE q2

fetchTableChartData(q, config) ==
    IF Len(config.rows) = 0 THEN Throw(q, "Rows are required")
    ELSE LET rows == ResolveDimensions(config.rows)
             columns == ResolveDimensions(config.columns)
             values == ResolveMeasures(config.values)
         IN  execute(prepareTableQuery(q, rows, columns, values))

\* the four ifs of refreshChart; the chart types they test exclude one another
refreshChart ==
    IF chart.type \in AXIS_CHARTS THEN fetchAxisChartData(chart.query, chart.config)
    ELSE IF chart.type = "Metric" THEN fetchMetricChartData(chart.query, chart.config)
    ELSE IF chart.type = "Donut" THEN fetchDonutChartData(chart.query, chart.config)
    ELSE IF chart.type = "Table" THEN fetchTableChartData(chart.query, chart.config)
    ELSE [outcome |-> "ok", query |-> chart.query, executed |-> FALSE]

(***************************************************************************)
(* Initial state: the chart after useAnalysisChart returns.  The type and  *)
(* the configuration are the defaults or what storeLocally restored.       *)
(***************************************************************************)
DEBOUNCE_MS == 500

Sources == {"operations", "config"}

NoBurst == [started |-> FALSE, compiles |-> 0, executes |-> 0, errors |-> 0]

FilterArgs == { [column |-> "region", operator |-> "=", value |-> "EU"] }

FilterLists == UNION { [1..n -> FilterArgs] : n \in 0..MaxFilters }

\* the i-th operation of the upstream query
UpstreamOp(i) == [type |-> IF i = 1 THEN "source" ELSE "join", index |-> i]

Init ==
    /\ \E t \in ChartTypes : \E c \in Configs(t) : \E a \in BOOLEAN :
          chart = [type |-> t, config |-> c, filters |-> <<>>,
                   query |-> [dataSource |-> "", operations |-> <<>>, autoExecute |-> a]]
    /\ model = [dataSource |-> "orders", operations |-> <<>>]
    /\ outcome = "idle"
    /\ executed = FALSE
    /\ timer = [s \in Sources |-> 0 - 1]
    /\ sinceLast = [s \in Sources |-> DEBOUNCE_MS]
    /\ burst = [s \in Sources |-> NoBurst]
    /\ gburst = NoBurst

(***************************************************************************)
(* Changes made from outside, and the compile.                             *)
(***************************************************************************)
NotACompile == outcome' = "idle" /\ executed' = FALSE

ChangeType(t) ==
    /\ t # chart.type
    /\ chart' = [chart EXCEPT !.type = t, !.config = EmptyConfig(t)]
    /\ UNCHANGED model
    /\ NotACompile

ChangeField(f, v) ==
    /\ chart.config[f] # v
    /\ chart' = [chart EXCEPT !.config[f] = v]
    /\ UNCHANGED model
    /\ NotACompile

ChangeFilters(fs) ==
    /\ fs # chart.filters
    /\ chart' = [chart EXCEPT !.filters = fs]
    /\ UNCHANGED model
    /\ NotACompile

PushOperation ==
    /\ Len(model.operations) < MaxUpstreamOps
    /\ model' = [model EXCEPT
                   !.operations = Append(@, UpstreamOp(Len(model.operations) + 1))]
    /\ UNCHANGED chart
    /\ NotACompile

PopOperation ==
    /\ Len(model.operations) > 0
    /\ model' = [model EXCEPT !.operations = SubSeq(@, 1, Len(@) - 1)]
    /\ UNCHANGED chart
    /\ NotACompile

Compile(r) ==
    /\ chart' = [chart EXCEPT !.query = r.query]
    /\ outcome' = r.outcome
    /\ executed' = r.executed
    /\ UNCHANGED model

(***************************************************************************)
(* Spec: the compile may run at any moment (chart.refresh is public, and   *)
(* the watchers call it some time after a change).                         *)
(***************************************************************************)
SetType == \E t \in ChartTypes : ChangeType(t) /\ UNCHANGED debounceVars

SetField ==
    \E f \in Fields(chart.type) : \E v \in FieldValues(f) :
        ChangeField(f, v) /\ UNCHANGED debounceVars

setFilters == \E fs \in FilterLists : ChangeFilters(fs) /\ UNCHANGED debounceVars

UpstreamPush == PushOperation /\ UNCHANGED debounceVars

UpstreamPop == PopOperation /\ UNCHANGED debounceVars

Refresh == Compile(refreshChart) /\ UNCHANGED debounceVars

Next == SetType \/ SetField \/ setFilters \/ UpstreamPush \/ UpstreamPop \/ Refresh

Spec == Init /\ [][Next]_vars

(***************************************************************************)
(* SpecDebounce: the two watchDebounced watchers under a clock.  The chart *)
(* type stays the one the chart was created with (a Donut).                *)
(***************************************************************************)
Min(a, b) == IF a < b THEN a ELSE b

Max(a, b) == IF a > b THEN a ELSE b

Bump(n, by) == Min(MaxCount, n + by)

\* a filter that leaves a running timer alone instead of restarting it
debounceKeep(remaining) == IF remaining >= 0 THEN remaining ELSE DEBOUNCE_MS

\* the debounce filter on a change of the watched source: (re)start the timer
debounceRestart(remaining) == DEBOUNCE_MS

\* milliseconds since the last change of either source
Gap == Min(sinceLast["operations"], sinceLast["config"])

NoneDue == \A s \in Sources : timer[s] # 0

Touch(s) ==
    /\ timer' = [timer EXCEPT ![s] = debounceRestart(timer[s])]
    /\ sinceLast' = [sinceLast EXCEPT ![s] = 0]
    /\ burst' = [burst EXCEPT ![s] = IF sinceLast[s] >= DEBOUNCE_MS
                                      THEN [NoBurst EXCEPT !.started = TRUE]
                                      ELSE @]
    /\ gburst' = IF Gap >= DEBOUNCE_MS THEN [NoBurst EXCEPT !.started = TRUE] ELSE gburst

Counted(b, r) ==
    [b EXCEPT !.compiles = Bump(@, 1),
              !.executes = Bump(@, IF r.executed THEN 1 ELSE 0),
              !.errors = Bump(@, IF r.outcome \in ErrorMessages THEN 1 ELSE 0)]

ConfigEdited ==
    /\ NoneDue
    /\ \E f \in Fields(chart.type) : \E v \in FieldValues(f) : ChangeField(f, v)
    /\ Touch("config")

OperationAdded == NoneDue /\ PushOperation /\ Touch("operations")

OperationRemoved == NoneDue /\ PopOperation /\ Touch("operations")

AdvanceTime ==
    /\ NoneDue
    /\ \E s \in Sources : sinceLast[s] < DEBOUNCE_MS
    /\ timer' = [s \in Sources |-> IF timer[s] > 0 THEN Max(0, timer[s] - TickMs)
                                    ELSE timer[s]]
    /\ sinceLast' = [s \in Sources |-> Min(DEBOUNCE_MS, sinceLast[s] + TickMs)]
    /\ UNCHANGED <<chart, model, burst, gburst>>
    /\ NotACompile

Fire(s) ==
    /\ timer[s] = 0
    /\ Compile(refreshChart)
    /\ timer' = [timer EXCEPT ![s] = 0 - 1]
    /\ burst' = [burst EXCEPT ![s] = Counted(@, refreshChart)]
    /\ gburst' = Counted(gburst, refreshChart)
    /\ UNCHANGED sinceLast

OperationsWatcher == Fire("operations")

ConfigWatcher == Fire("config")

InitDebounce == Init /\ chart.type = "Donut" /\ chart.config = EmptyConfig("Donut")

NextDebounce ==
    \/ ConfigEdited
    \/ OperationAdded
    \/ OperationRemoved
    \/ AdvanceTime
    \/ OperationsWatcher
    \/ ConfigWatcher

SpecDebounce == InitDebounce /\ [][NextDebounce]_vars

(***************************************************************************)
(* Vocabulary of the properties.                                           *)
(***************************************************************************)
Ops == chart.query.operations

\* the base of a plan: the upstream operations, then the filters if any
BaseOps ==
    model.operations \o
        (IF chart.filters # <<>>
         THEN << [type |-> "filter_group", filters |-> chart.filters] >>
         ELSE <<>>)

\* what the plan holds after its base
TypeOps == SubSeq(Ops, Len(BaseOps) + 1, Len(Ops))

Compiled == outcome # "idle"

Succeeded == outcome = "ok"

\* the kinds of operations each chart type may add, in order
TailKinds(type) ==
    CASE type \in AXIS_CHARTS -> { <<"summarize">>, <<"pivot_wider">> }
      [] type = "Metric" -> { <<"summarize">>, <<"summarize", "mutate">> }
      [] type = "Donut" -> { <<"summarize", "order_by">> }
      [] type = "Table" -> { <<"summarize">>, <<"pivot_wider">> }

KindsOf(ops) == [i \in 1..Len(ops) |-> ops[i].type]

(***************************************************************************)
(* C1: a compile that fails with a configuration error (MissingField,      *)
(* ConflictingFields or UnknownColumn) leaves the plan (data source,       *)
(* operation list, autoExecute flag) exactly as it was before the compile  *)
(* and does not call execute, whatever compiles came before.               *)
(***************************************************************************)
C1_FailedCompileLeavesPlan ==
    [][ (ErrorKind(outcome') \in {"MissingField", "ConflictingFields", "UnknownColumn"})
            => (chart'.query = chart.query /\ executed' = FALSE) ]_vars

\* a Metric compile failed with UnknownColumn over the plan an earlier Donut
\* compile left
C1_Witness ==
    /\ chart.type = "Metric"
    /\ ErrorKind(outcome) = "UnknownColumn"
    /\ Len(Ops) > 0
    /\ Ops[Len(Ops)].type = "order_by"
    /\ chart.query.dataSource = "orders"

(***************************************************************************)
(* C2, as claimed: a Metric configuration in which both target_value and   *)
(* target_column are set fails with ConflictingFields, whatever the value  *)
(* of target_value (0 and negative numbers included).                      *)
(***************************************************************************)
C2_SetTargetPairConflicts ==
    (/\ chart.type = "Metric"
     /\ Compiled
     /\ chart.config.target_value # Undefined
     /\ chart.config.target_column # UNDEF)
        => ErrorKind(outcome) = "ConflictingFields"

NonZeroOrNonEmpty(v) ==
    \/ v.t = "number" /\ v.v # 0
    \/ v.t = "string" /\ Len(v.v) > 0

(***************************************************************************)
(* C2, amended: a Metric configuration in which target_value is a non-zero *)
(* number (negative ones included) or a non-empty string and target_column *)
(* is a non-empty name fails with ConflictingFields, whatever              *)
(* metric_column and date_column are.  A target_value of 0 counts as not   *)
(* set.                                                                    *)
(***************************************************************************)
C2_TruthyTargetPairConflicts ==
    (/\ chart.type = "Metric"
     /\ Compiled
     /\ NonZeroOrNonEmpty(chart.config.target_value)
     /\ chart.config.target_column \notin {UNDEF, ""})
        => ErrorKind(outcome) = "ConflictingFields"

\* a negative target_value next to a resolvable target_column was refused
C2_Witness ==
    /\ chart.type = "Metric"
    /\ outcome = "Target value and target column cannot be used together"
    /\ chart.config.target_value = Num(0 - 5)
    /\ chart.config.target_column = "avg_cost"
    /\ chart.config.metric_column = "total_revenue"
    /\ chart.config.date_column = UNDEF

(***************************************************************************)
(* C3: the plan left by the most recent successful compile is the upstream *)
(* data source, the upstream operations as they were at that compile, the  *)
(* filters right after them if and only if there were any, and then only   *)
(* the operations of that compile's chart type; nothing an earlier compile *)
(* emitted remains, and steps other than a successful compile leave the    *)
(* plan alone.                                                             *)
(***************************************************************************)
C3_PlanIsFreshBasePlusTypeOps ==
    [][ /\ (outcome' = "ok") =>
              /\ chart'.query.dataSource = model'.dataSource
              /\ Len(Ops') >= Len(BaseOps')
              /\ SubSeq(Ops', 1, Len(BaseOps')) = BaseOps'
              /\ KindsOf(TypeOps') \in TailKinds(chart'.type)
        /\ (outcome' # "ok") => chart'.query = chart.query ]_vars

\* a successful compile over a non-empty upstream list and a non-empty filter set
C3_Witness ==
    /\ Succeeded
    /\ chart.type = "Table"
    /\ chart.filters # <<>>
    /\ Len(model.operations) > 0
    /\ Len(Ops) = Len(model.operations) + 2

(***************************************************************************)
(* C5: a Metric configuration in which no two set fields conflict and      *)
(* whose metric_column is missing or resolves to no Measure fails with     *)
(* UnknownColumn and with no other kind of error.                          *)
(***************************************************************************)
C5_UnresolvedMetricIsUnknownColumn ==
    (/\ chart.type = "Metric"
     /\ Compiled
     /\ ~(chart.config.target_value # Undefined /\ chart.config.target_column # UNDEF)
     /\ ~(chart.config.target_column # UNDEF /\ chart.config.date_column # UNDEF)
     /\ ~(chart.config.target_column # UNDEF
          /\ chart.config.target_column = chart.config.metric_column)
     /\ \A m \in MeasureCatalog : m.measure_name # chart.config.metric_column)
        => ErrorKind(outcome) = "UnknownColumn"

(***************************************************************************)
(* C6: a Metric configuration with target_value = 0 that compiles does not *)
(* take the literal-target branch: the plan has no derive operation and    *)
(* one summarize, which is [metric, target measure] over no dimension if   *)
(* target_column resolves to a Measure, else [metric] by [date] if         *)
(* date_column resolves to a Dimension, else [metric] over no dimension.   *)
(***************************************************************************)
C6_ZeroTargetIsNotLiteral ==
    (/\ chart.type = "Metric"
     /\ Succeeded
     /\ chart.config.target_value \in {Num(0), Str(<<"0">>)})
        => LET metric == getMeasure(chart.config.metric_column)
               target == getMeasure(chart.config.target_column)
               date == getDimension(chart.config.date_column)
           IN  /\ \A i \in 1..Len(Ops) : Ops[i].type # "mutate"
               /\ Len(TypeOps) = 1
               /\ TypeOps[1] =
                     [type |-> "summarize",
                      measures |-> IF target # Absent THEN <<metric, target>>
                                   ELSE <<metric>>,
                      dimensions |-> IF target = Absent /\ date # Absent THEN <<date>>
                                     ELSE <<>>]

\* target_value 0 next to a resolvable target_column: the measure-target branch
C6_Witness ==
    /\ chart.type = "Metric"
    /\ Succeeded
    /\ chart.config.target_value = Num(0)
    /\ chart.config.target_column = "avg_cost"
    /\ Len(TypeOps) = 1
    /\ Len(TypeOps[1].measures) = 2

(***************************************************************************)
(* C7: an Axis configuration that compiles adds exactly one operation      *)
(* after the base: a pivot-wider with rows=[x_axis] and columns=[split_by] *)
(* when split_by resolves to a Dimension, a summarize with                 *)
(* dimensions=[x_axis] when it is absent or does not resolve; and a        *)
(* split_by that does not resolve never makes the compile fail.            *)
(***************************************************************************)
C7_AxisPivotIffSplitResolves ==
    (chart.type \in AXIS_CHARTS /\ Compiled) =>
        LET x == getDimension(chart.config.x_axis)
            split == getDimension(chart.config.split_by)
        IN  /\ Succeeded =>
                  /\ Len(TypeOps) = 1
                  /\ IF split # Absent
                     THEN /\ TypeOps[1].type = "pivot_wider"
                          /\ TypeOps[1].rows = <<x>>
                          /\ TypeOps[1].columns = <<split>>
                     ELSE /\ TypeOps[1].type = "summarize"
                          /\ TypeOps[1].dimensions = <<x>>
            /\ (x # Absent /\ chart.config.x_axis # chart.config.split_by) => Succeeded

\* a split_by that resolves gave a pivot-wider
C7_Witness ==
    /\ chart.type \in AXIS_CHARTS
    /\ Succeeded
    /\ chart.config.split_by = "quarter"
    /\ Len(TypeOps) = 1
    /\ TypeOps[1].type = "pivot_wider"

(***************************************************************************)
(* C8: a Table configuration with a non-empty rows list compiles to        *)
(* exactly one operation after the base: pivot-wider(rows, columns,        *)
(* values) if the resolved columns list is non-empty, summarize(rows,      *)
(* values) if it is empty; also when no name of rows or values resolves.   *)
(***************************************************************************)
C8_TablePivotXorSummarize ==
    (chart.type = "Table" /\ Compiled /\ Len(chart.config.rows) > 0) =>
        LET rows == ResolveDimensions(chart.config.rows)
            columns == ResolveDimensions(chart.config.columns)
            values == ResolveMeasures(chart.config.values)
        IN  /\ Succeeded
            /\ Len(TypeOps) = 1
            /\ TypeOps[1] =
                  IF Len(columns) > 0
                  THEN [type |-> "pivot_wider", rows |-> rows, columns |-> columns,
                        values |-> values]
                  ELSE [type |-> "summarize", measures |-> values, dimensions |-> rows]

\* rows that resolve to nothing, columns that resolve to one dimension
C8_Witness ==
    /\ chart.type = "Table"
    /\ Succeeded
    /\ chart.config.rows = <<"total_revenue">>
    /\ chart.config.columns = <<"total_revenue", "quarter">>
    /\ Len(TypeOps) = 1
    /\ TypeOps[1].type = "pivot_wider"
    /\ TypeOps[1].rows = <<>>

(***************************************************************************)
(* C9: the plan of a Donut configuration that compiles, with or without    *)
(* filters, ends with an order-by on the column name under the value       *)
(* measure, descending, directly after the summarize with                  *)
(* dimensions=[label] and measures=[value].                                *)
(***************************************************************************)
C9_DonutEndsWithOrderByValueDesc ==
    (chart.type = "Donut" /\ Succeeded) =>
        LET label == CHOOSE d \in DimensionCatalog :
                         d.dimension_name = chart.config.label_column
            value == CHOOSE m \in MeasureCatalog :
                         m.measure_name = chart.config.value_column
        IN  /\ Len(Ops) >= 2
            /\ Ops[Len(Ops)] = [type |-> "order_by",
                                 column |-> [type |-> "column",
                                             column_name |-> value.column_name],
                                 direction |-> "desc"]
            /\ Ops[Len(Ops) - 1] = [type |-> "summarize", measures |-> <<value>>,
                                     dimensions |-> <<label>>]

\* a Donut compiled under active filters
C9_Witness ==
    /\ chart.type = "Donut"
    /\ Succeeded
    /\ chart.filters # <<>>
    /\ Ops[Len(Ops)].type = "order_by"

(***************************************************************************)
(* C10: an Axis configuration that compiles and whose y_axis is missing,   *)
(* empty or resolves to no Measure gets exactly one default row-count      *)
(* measure in its summarize or pivot-wider; when a y_axis name resolves,   *)
(* the measures are the resolved ones in configuration order, without the  *)
(* row-count default.                                                      *)
(***************************************************************************)
C10_AxisMeasuresDefaultToCount ==
    (chart.type \in AXIS_CHARTS /\ Succeeded) =>
        LET op == TypeOps[1]
            measures == IF op.type = "pivot_wider" THEN op.values ELSE op.measures
            names == chart.config.y_axis.items
            resolved == SelectSeq(names,
                                  LAMBDA n : \E m \in MeasureCatalog : m.measure_name = n)
        IN  IF resolved = <<>>
            THEN measures = <<count>>
            ELSE /\ Len(measures) = Len(resolved)
                 /\ \A i \in 1..Len(resolved) :
                       /\ measures[i].measure_name = resolved[i]
                       /\ measures[i] \in MeasureCatalog

\* a y_axis whose only name resolves to no measure fell back to the row count
C10_Witness ==
    /\ chart.type \in AXIS_CHARTS
    /\ Succeeded
    /\ chart.config.y_axis = Arr(<<"region">>)
    /\ Len(TypeOps) = 1
    /\ TypeOps[1].type = "summarize"
    /\ TypeOps[1].measures = <<count>>

(***************************************************************************)
(* C4, as claimed: every burst of changes to the configuration and/or the  *)
(* upstream operations, each less than the window after the previous one,  *)
(* ends in exactly one compile and exactly one execute (the execute is     *)
(* asked for only of a compile that raises no error).                      *)
(***************************************************************************)
C4_OneCyclePerBurst ==
    (/\ gburst.started
     /\ Gap >= DEBOUNCE_MS
     /\ \A s \in Sources : timer[s] < 0)
        => /\ gburst.compiles = 1
           /\ gburst.errors = 0 => gburst.executes = 1

(***************************************************************************)
(* C4, amended: for each watched source separately (the configuration, the *)
(* upstream operations), a burst of changes to that source, each less than *)
(* the window after the previous change to it, gets exactly one compile,   *)
(* after the last change of the burst; that compile calls execute exactly  *)
(* once if it raises no configuration error and not at all if it raises    *)
(* one.  The two sources are debounced independently, so a burst that      *)
(* touches both compiles once per source.                                  *)
(***************************************************************************)
C4_OneCompilePerSourceBurst ==
    \A s \in Sources :
        burst[s].started =>
            /\ (sinceLast[s] < DEBOUNCE_MS) => burst[s].compiles = 0
            /\ (timer[s] < 0) =>
                  /\ sinceLast[s] >= DEBOUNCE_MS
                  /\ burst[s].compiles = 1
                  /\ burst[s].executes = (IF burst[s].errors = 0 THEN 1 ELSE 0)

\* a burst that touched both sources ended with one compile for each
C4_Witness ==
    /\ \A s \in Sources : burst[s].started /\ timer[s] < 0 /\ burst[s].compiles = 1
    /\ gburst.compiles = 2
    /\ gburst.executes = 2

====
